---- MODULE Spec2Model ----
(***************************************************************************)
(* LocalGPT background script (scripts/background/initialize.js): the      *)
(* in-memory store localDB, its debounced persistence, the conversation    *)
(* merge and query controllers and the message router with its readiness   *)
(* gate.                                                                   *)
(*                                                                         *)
(* The source file holds two copies of the script: lines 1-231 (copy 1)    *)
(* and lines 233-430 (copy 2).  The variable "copy" says which one runs.   *)
(*                                                                         *)
(* Data representation.  A JavaScript object is a function from the names  *)
(* of the properties it has to their values, so a missing property is a    *)
(* name outside DOMAIN.  An array is a sequence.  A string that the code   *)
(* inspects character by character (title, searchTerm) is a sequence of    *)
(* one-character strings.  Timestamps are numeric epoch milliseconds.      *)
(***************************************************************************)
EXTENDS Integers, Sequences, FiniteSets, TLC

VARIABLES copy, isDBReady, initPc, localDB, storage, saveTimeout, timers,
          timerSeq, held, nreq, uuidCount, responses, log, writes,
          lastMut

vars == <<copy, isDBReady, initPc, localDB, storage, saveTimeout, timers,
          timerSeq, held, nreq, uuidCount, responses, log, writes,
          lastMut>>

(***************************************************************************)
(* Program constants                                                       *)
(***************************************************************************)
DEBOUNCE_DELAY == 500
maxRetries == 10
retryDelay == 100
DefaultPage == 1
DefaultLimit == 20

(***************************************************************************)
(* Bounds of the model                                                     *)
(***************************************************************************)
MaxReq == 2
MaxGateReq == 2
MaxMergeReq == 2
MaxQueryReq == 1
MaxBatch == 2
MaxPageReq == 1

(***************************************************************************)
(* Objects                                                                 *)
(***************************************************************************)
Has(o, f) == f \in DOMAIN o

\* { ...a, ...b }
Spread(a, b) ==
  [f \in (DOMAIN a) \cup (DOMAIN b) |-> IF f \in DOMAIN b THEN b[f] ELSE a[f]]

\* a null element of an array of objects
NullEntry == [isNull |-> TRUE]
IsNull(o) == DOMAIN o = {"isNull"}

\* o.id used as a Map key or compared with ===: <<>> is undefined
IdOf(o) == IF Has(o, "id") THEN <<o.id>> ELSE <<>>

Range(s) == {s[i] : i \in 1..Len(s)}

RECURSIVE SelectIdx(_, _, _)
\* indices of s, ascending, kept by the Boolean function keep
SelectIdx(s, keep, i) ==
  IF i > Len(s) THEN <<>>
  ELSE (IF keep[i] THEN <<s[i]>> ELSE <<>>) \o SelectIdx(s, keep, i + 1)

\* Array.prototype.filter
Filter(s, Test(_)) == SelectIdx(s, [i \in 1..Len(s) |-> Test(s[i])], 1)

\* Array.prototype.findIndex, 1-based, 0 when nothing matches
FindIndex(s, Test(_)) ==
  IF \E i \in 1..Len(s) : Test(s[i])
  THEN CHOOSE i \in 1..Len(s) : Test(s[i]) /\ \A j \in 1..(i - 1) : ~Test(s[j])
  ELSE 0

Min(a, b) == IF a < b THEN a ELSE b
Max(a, b) == IF a > b THEN a ELSE b

\* Array.prototype.slice(start, end) with its relative-index rules
Slice(s, start, end) ==
  LET len == Len(s)
      k == IF start < 0 THEN Max(len + start, 0) ELSE Min(start, len)
      final == IF end < 0 THEN Max(len + end, 0) ELSE Min(end, len)
  IN  IF k >= final THEN <<>> ELSE SubSeq(s, k + 1, final)

(***************************************************************************)
(* Strings                                                                 *)
(***************************************************************************)
LowerChar(ch) == CASE ch = "A" -> "a" [] ch = "B" -> "b" [] OTHER -> ch

\* String.prototype.toLowerCase
ToLowerCase(str) == [i \in 1..Len(str) |-> LowerChar(str[i])]

\* String.prototype.includes
Includes(str, term) ==
  \E i \in 0..(Len(str) - Len(term)) :
    \A j \in 1..Len(term) : str[i + j] = term[j]

(***************************************************************************)
(* The default store                                                       *)
(***************************************************************************)
DefaultUser == [id |-> "local-user", email |-> "local@localgpt.app",
                plan |-> "pro", subscription_status |-> "active"]

DefaultDB == [conversations |-> <<>>, folders |-> <<>>, prompts |-> <<>>,
              settings |-> <<>>, user |-> DefaultUser, notes |-> <<>>]

NoSnapshot == [empty |-> TRUE]

(***************************************************************************)
(* Map, as the insertion-ordered sequence of its [k, v] entries            *)
(***************************************************************************)
MapHas(m, key) == \E i \in 1..Len(m) : m[i].k = key

\* Map.prototype.get; only used where MapHas holds
MapGet(m, key) == m[CHOOSE i \in 1..Len(m) : m[i].k = key].v

\* set that never looks the key up
MapSetAppend(m, key, val) == Append(m, [k |-> key, v |-> val])

\* Map.prototype.set: an existing key keeps its position
MapSet(m, key, val) ==
  IF MapHas(m, key)
  THEN [i \in 1..Len(m) |-> IF m[i].k = key THEN [k |-> key, v |-> val] ELSE m[i]]
  ELSE Append(m, [k |-> key, v |-> val])

RECURSIVE MapOf(_, _, _)
\* new Map(conversations.map(c => [c.id, c]))
MapOf(convs, i, m) ==
  IF i > Len(convs) THEN m
  ELSE MapOf(convs, i + 1, MapSet(m, IdOf(convs[i]), convs[i]))

\* Array.from(map.values())
MapValues(m) == [i \in 1..Len(m) |-> m[i].v]

(***************************************************************************)
(* Controller.addConversations                                             *)
(***************************************************************************)
NullIdMessage == "Cannot read properties of null (reading 'id')"

\* an iteration that inserts without looking the id up
MergeEntryPush(m, newC) == Append(m, [k |-> IdOf(newC), v |-> newC])

\* an iteration whose spread lets the stored fields win
MergeEntryKeepOld(m, newC) ==
  IF MapHas(m, IdOf(newC))
  THEN MapSet(m, IdOf(newC), Spread(newC, MapGet(m, IdOf(newC))))
  ELSE MapSet(m, IdOf(newC), newC)

\* one iteration of the forEach of copy 1 on a non-null entry
MergeEntry(m, newC) ==
  IF MapHas(m, IdOf(newC))
  THEN MapSet(m, IdOf(newC), Spread(MapGet(m, IdOf(newC)), newC))
  ELSE MapSet(m, IdOf(newC), newC)

RECURSIVE MergeBatch(_, _, _)
\* the forEach of copy 1; reading newC.id of a null entry throws
MergeBatch(m, newConvos, i) ==
  IF i > Len(newConvos) THEN [map |-> m, threw |-> FALSE]
  ELSE IF IsNull(newConvos[i]) THEN [map |-> m, threw |-> TRUE]
  ELSE MergeBatch(MergeEntry(m, newConvos[i]), newConvos, i + 1)

\* one iteration of the forEach of copy 2 on a non-null entry
RECURSIVE UpsertIndex(_, _, _)
\* localDB.conversations.findIndex(c => c.id === newC.id) from position k: the
\* position found, 0 for -1, and -1 when the callback throws, which it does
\* when it is called with c or newC null
UpsertIndex(convs, newC, k) ==
  IF k > Len(convs) THEN 0
  ELSE IF IsNull(convs[k]) \/ IsNull(newC) THEN -1
  ELSE IF IdOf(convs[k]) = IdOf(newC) THEN k
  ELSE UpsertIndex(convs, newC, k + 1)

UpsertEntry(convs, newC) ==
  LET index == UpsertIndex(convs, newC, 1)
  IN  IF index > 0
      THEN [convs EXCEPT ![index] = Spread(convs[index], newC)]
      ELSE Append(convs, newC)

RECURSIVE UpsertBatch(_, _, _)
\* the forEach of copy 2, which writes into localDB.conversations as it goes
UpsertBatch(convs, newConvos, i) ==
  IF i > Len(newConvos) THEN [convs |-> convs, threw |-> FALSE]
  ELSE IF UpsertIndex(convs, newConvos[i], 1) < 0
  THEN [convs |-> convs, threw |-> TRUE]
  ELSE UpsertBatch(UpsertEntry(convs, newConvos[i]), newConvos, i + 1)

Fault(db, message) ==
  [db |-> db, save |-> FALSE, threw |-> TRUE, message |-> message]

Done(db, save, response) ==
  [db |-> db, save |-> save, threw |-> FALSE, response |-> response]

addConversations2(db, request) ==
  LET newConvos == IF Has(request, "conversations")
                   THEN request.conversations ELSE <<>>
      r == UpsertBatch(db.conversations, newConvos, 1)
      changed == Len(newConvos) > 0
      db2 == [db EXCEPT !.conversations = r.convs]
  IN  IF r.threw THEN Fault(db2, NullIdMessage)
      ELSE Done(db2, changed, [success |-> TRUE, count |-> Len(r.convs)])

\* the merge applied to the store entry by entry as the batch is read
addConversationsEager(db, request) == addConversations2(db, request)

addConversations1(db, request) ==
  LET newConvos == IF Has(request, "conversations")
                   THEN request.conversations ELSE <<>>
      r == MergeBatch(MapOf(db.conversations, 1, <<>>), newConvos, 1)
      changed == Len(newConvos) > 0
      convs == IF changed THEN MapValues(r.map) ELSE db.conversations
      storedNull == \E k \in 1..Len(db.conversations) : IsNull(db.conversations[k])
  IN  IF storedNull \/ r.threw THEN Fault(db, NullIdMessage)
      ELSE Done([db EXCEPT !.conversations = convs], changed,
                [success |-> TRUE, count |-> Len(convs)])

(***************************************************************************)
(* Controller.getConversations                                             *)
(***************************************************************************)
\* new Date(v).getTime() of numeric epoch milliseconds inside the time range
DateGetTime(v) == v

\* a.update_time || a.create_time || 0
EffectiveTime(c) ==
  IF Has(c, "update_time") /\ c.update_time # 0 THEN DateGetTime(c.update_time)
  ELSE IF Has(c, "create_time") /\ c.create_time # 0 THEN DateGetTime(c.create_time)
  ELSE DateGetTime(0)

RECURSIVE InsertDesc(_, _)
\* x goes behind every element that does not compare after it
InsertDesc(sorted, x) ==
  IF sorted = <<>> THEN <<x>>
  ELSE IF EffectiveTime(x) - EffectiveTime(Head(sorted)) > 0
       THEN <<x>> \o sorted
       ELSE <<Head(sorted)>> \o InsertDesc(Tail(sorted), x)

RECURSIVE SortDesc(_, _, _)
\* results.sort((a, b) => timeB - timeA): stable, most recent first
SortDesc(s, i, acc) ==
  IF i > Len(s) THEN acc ELSE SortDesc(s, i + 1, InsertDesc(acc, s[i]))

TitleMatches(c, lowerTerm) ==
  Has(c, "title") /\ c.title # <<>> /\ Includes(ToLowerCase(c.title), lowerTerm)

IsTrashed(c) == Has(c, "isTrashed") /\ c.isTrashed

ConversationIds(folder) ==
  IF Has(folder, "conversationIds") THEN Range(folder.conversationIds) ELSE {}

HasSearchTerm(request) == Has(request, "searchTerm") /\ request.searchTerm # <<>>

\* 1. Filter by Search Term
TextFilter(convs, request) ==
  LET Match(c) == TitleMatches(c, ToLowerCase(request.searchTerm))
  IN  IF HasSearchTerm(request) THEN Filter(convs, Match) ELSE convs

\* which branch of "2. Filter by Folder" runs: "folder", "trash" or "none"
FolderBranch(folders, request) ==
  LET IsFolder(f) == IdOf(f) = <<request.folderId>>
  IN  IF ~(Has(request, "folderId") /\ request.folderId # ""
           /\ request.folderId # "all") THEN "none"
      ELSE IF FindIndex(folders, IsFolder) > 0 THEN "folder"
      ELSE IF request.folderId = "trash" THEN "trash"
      ELSE "none"

\* a folder filter that keeps nothing when the folder is not found
FolderFilterStrict(folders, request, results) ==
  LET IsFolder(f) == IdOf(f) = <<request.folderId>>
      folder == folders[FindIndex(folders, IsFolder)]
      Allowed(c) == Has(c, "id") /\ c.id \in ConversationIds(folder)
      branch == FolderBranch(folders, request)
  IN  IF branch = "folder" THEN Filter(results, Allowed)
      ELSE IF branch = "trash" THEN Filter(results, IsTrashed)
      ELSE IF Has(request, "folderId") /\ request.folderId \notin {"", "all"} THEN <<>>
      ELSE results

\* 2. Filter by Folder
FolderFilter(folders, request, results) ==
  LET IsFolder(f) == IdOf(f) = <<request.folderId>>
      folder == folders[FindIndex(folders, IsFolder)]
      Allowed(c) == Has(c, "id") /\ c.id \in ConversationIds(folder)
      branch == FolderBranch(folders, request)
  IN  IF branch = "folder" THEN Filter(results, Allowed)
      ELSE IF branch = "trash" THEN Filter(results, IsTrashed)
      ELSE results

\* without a filter, results is still the array localDB.conversations, and
\* results.sort sorts that array
SortsStore(folders, request) ==
  ~HasSearchTerm(request) /\ FolderBranch(folders, request) = "none"

\* the message of the TypeError a callback throws on a null conversation
NullReadMessage(field) ==
  CASE field = "title" -> "Cannot read properties of null (reading 'title')"
    [] field = "isTrashed" -> "Cannot read properties of null (reading 'isTrashed')"
    [] field = "update_time" -> "Cannot read properties of null (reading 'update_time')"

getConversations(db, request) ==
  LET page == IF Has(request, "page") THEN request.page ELSE DefaultPage
      limit == IF Has(request, "limit") THEN request.limit ELSE DefaultLimit
      filtered == FolderFilter(db.folders, request,
                               TextFilter(db.conversations, request))
      results == SortDesc(filtered, 1, <<>>)
      start == (page - 1) * limit
      branch == FolderBranch(db.folders, request)
      storedNull == \E k \in 1..Len(db.conversations) : IsNull(db.conversations[k])
  IN  IF storedNull /\ HasSearchTerm(request) THEN Fault(db, NullReadMessage("title"))
      ELSE IF storedNull /\ branch = "folder" THEN Fault(db, NullIdMessage)
      ELSE IF storedNull /\ branch = "trash"
      THEN Fault(db, NullReadMessage("isTrashed"))
      ELSE IF storedNull /\ Len(db.conversations) > 1
      THEN Fault(db, NullReadMessage("update_time"))
      ELSE Done(IF SortsStore(db.folders, request)
                THEN [db EXCEPT !.conversations = results] ELSE db,
                FALSE,
                [success |-> TRUE,
                 conversations |-> Slice(results, start, start + limit),
                 total |-> Len(results), page |-> page, limit |-> limit])

(***************************************************************************)
(* Prompts, user, subscription                                             *)
(***************************************************************************)
\* crypto.randomUUID(): the n-th identifier generated
RandomUUID(n) == <<"uuid-1", "uuid-2", "uuid-3", "uuid-4", "uuid-5", "uuid-6">>[n]

UndefinedIdMessage == "Cannot read properties of undefined (reading 'id')"

\* !prompt.id: the id is missing or the empty string
LacksId(prompt) == ~Has(prompt, "id") \/ prompt.id = ""

\* a savePrompt that pushes without looking for the id
savePromptPush(db, request, uuid, whichCopy) ==
  LET given == IF Has(request, "prompt") THEN request.prompt ELSE <<>>
      promptCopy == IF LacksId(given) THEN Spread(given, [id |-> uuid]) ELSE given
  IN  Done([db EXCEPT !.prompts = Append(db.prompts, promptCopy)], TRUE,
           [success |-> TRUE, prompt |-> promptCopy])

savePrompt(db, request, uuid, whichCopy) ==
  LET given == IF Has(request, "prompt") THEN request.prompt ELSE <<>>
      promptCopy == IF LacksId(given) THEN Spread(given, [id |-> uuid]) ELSE given
      SameId(p) == IdOf(p) = IdOf(promptCopy)
      index == FindIndex(db.prompts, SameId)
      prompts == IF index > 0 THEN [db.prompts EXCEPT ![index] = promptCopy]
                 ELSE Append(db.prompts, promptCopy)
  IN  IF whichCopy = 2 /\ ~Has(request, "prompt")
      THEN Fault(db, UndefinedIdMessage)
      ELSE Done([db EXCEPT !.prompts = prompts], TRUE,
                [success |-> TRUE, prompt |-> promptCopy])

deletePrompt(db, request) ==
  LET Other(p) == IdOf(p) # IdOf(request)
  IN  Done([db EXCEPT !.prompts = Filter(db.prompts, Other)], TRUE,
           [success |-> TRUE])

getPrompts(db) == Done(db, FALSE, [success |-> TRUE, prompts |-> db.prompts])

checkHasSubscription(db) ==
  Done(db, FALSE, [success |-> TRUE, hasSubscription |-> TRUE,
                   plan |-> "pro", type |-> "stripe"])

registerUser(db) == Done(db, FALSE, [success |-> TRUE, user |-> db.user])

(***************************************************************************)
(* handleMessage                                                           *)
(***************************************************************************)
ControllerNames == {"checkHasSubscription", "registerUser", "addConversations",
                    "getConversations", "getPrompts", "savePrompt", "deletePrompt"}

\* request.type || request.action; <<>> is undefined
ActionOf(request) ==
  IF Has(request, "type") /\ request.type # "" THEN <<request.type>>
  ELSE IF Has(request, "action") THEN <<request.action>>
  ELSE <<>>

\* Controller[action](request)
Controller(action, db, request, uuid, whichCopy) ==
  CASE action = "checkHasSubscription" -> checkHasSubscription(db)
    [] action = "registerUser" -> registerUser(db)
    [] action = "addConversations" ->
         IF whichCopy = 1 THEN addConversations1(db, request)
         ELSE addConversations2(db, request)
    [] action = "getConversations" -> getConversations(db, request)
    [] action = "getPrompts" -> getPrompts(db)
    [] action = "savePrompt" -> savePrompt(db, request, uuid, whichCopy)
    [] action = "deletePrompt" -> deletePrompt(db, request)

\* the property names Controller inherits from Object.prototype
InheritedNames ==
  {"constructor", "toString", "toLocaleString", "valueOf", "hasOwnProperty",
   "isPrototypeOf", "propertyIsEnumerable", "__proto__", "__defineGetter__",
   "__defineSetter__", "__lookupGetter__", "__lookupSetter__"}

Undefined == [undefined |-> TRUE]

\* Controller[action](request) for an inherited name: Object(request) is the
\* request, the key String(request) is no property of Controller, the
\* prototype is no function and a getter must be one
Inherited(action, db, request) ==
  CASE action = "constructor" -> Done(db, FALSE, request)
    [] action \in {"toString", "toLocaleString"} -> Done(db, FALSE, "[object Object]")
    [] action = "valueOf" -> Done(db, FALSE, [n \in ControllerNames |-> "function"])
    [] action \in {"hasOwnProperty", "isPrototypeOf", "propertyIsEnumerable"} ->
         Done(db, FALSE, FALSE)
    [] action = "__proto__" -> Fault(db, "Controller[action] is not a function")
    [] action = "__defineGetter__" ->
         Fault(db, "Object.prototype.__defineGetter__: Expecting function")
    [] action = "__defineSetter__" ->
         Fault(db, "Object.prototype.__defineSetter__: Expecting function")
    [] action \in {"__lookupGetter__", "__lookupSetter__"} -> Done(db, FALSE, Undefined)

\* the outcome of handleMessage: the store, whether saveDB ran, the response
\* sent, and whether Controller[action] was truthy and called
HandleMessage(db, request, uuid, whichCopy) ==
  LET action == ActionOf(request)
      r == IF action[1] \in ControllerNames
           THEN Controller(action[1], db, request, uuid, whichCopy)
           ELSE Inherited(action[1], db, request)
  IN  IF action # <<>> /\ action[1] \in ControllerNames \cup InheritedNames
      THEN [db |-> r.db, save |-> r.save, called |-> TRUE,
            response |-> IF r.threw THEN [success |-> FALSE, error |-> r.message]
                         ELSE r.response]
      ELSE IF action = <<"ping">>
      THEN [db |-> db, save |-> FALSE, called |-> FALSE,
            response |-> [status |-> "ok"]]
      ELSE [db |-> db, save |-> FALSE, called |-> FALSE,
            response |-> [success |-> FALSE, error |-> "Unknown action"]]

(***************************************************************************)
(* saveDB and the task queue                                               *)
(*                                                                         *)
(* Time is kept by the timers themselves: a pending timer holds the time   *)
(* left until it is due, and time passes in steps of retryDelay while no   *)
(* timer is due.  lastMut and writes are history: the last operation that  *)
(* called saveDB (how many there were, the time since, the store it left)  *)
(* and the durable writes made.                                            *)
(***************************************************************************)
\* a saveDB that arms its timer without clearing the pending one
SaveDBTimersKeep ==
  timers \cup {[id |-> timerSeq + 1, left |-> DEBOUNCE_DELAY]}

\* the pending timers once saveDB has run
SaveDBTimers ==
  {t \in timers : saveTimeout = 0 \/ t.id # saveTimeout}
    \cup {[id |-> timerSeq + 1, left |-> DEBOUNCE_DELAY]}

\* does handling the request call crypto.randomUUID()
CallsRandomUUID(request) ==
  /\ ActionOf(request) = <<"savePrompt">>
  /\ IF Has(request, "prompt") THEN LacksId(request.prompt) ELSE copy = 1

\* handleMessage(request, sendResponse) for the request numbered rid, reached
\* after the given number of retryDelay waits
Dispatch(rid, request, waits) ==
  LET h == HandleMessage(localDB, request, RandomUUID(uuidCount + 1), copy)
  IN  /\ localDB' = h.db
      /\ uuidCount' = IF CallsRandomUUID(request) THEN uuidCount + 1 ELSE uuidCount
      /\ IF h.save
         THEN /\ timers' = SaveDBTimers
              /\ saveTimeout' = timerSeq + 1
              /\ timerSeq' = timerSeq + 1
              /\ lastMut' = [n |-> lastMut.n + 1, age |-> 0, db |-> h.db]
         ELSE UNCHANGED <<timers, saveTimeout, timerSeq, lastMut>>
      /\ responses' = Append(responses, [rid |-> rid, response |-> h.response,
                                          waits |-> waits, ready |-> isDBReady])
      /\ log' = Append(log, [rid |-> rid, request |-> request, ready |-> isDBReady,
                             called |-> h.called, save |-> h.save,
                             before |-> localDB, after |-> h.db,
                             response |-> h.response])

\* a timer callback that writes nothing
SaveTimerFireIdle ==
  \E t \in timers :
    /\ t.left = 0
    /\ timers' = timers \ {t}
    /\ UNCHANGED <<copy, isDBReady, initPc, localDB, storage, saveTimeout, timerSeq,
                   held, nreq, uuidCount, responses, log, writes, lastMut>>

\* the setTimeout callback of saveDB: chrome.storage.local.set
SaveTimerFire ==
  \E t \in timers :
    /\ t.left = 0
    /\ timers' = timers \ {t}
    /\ storage' = localDB
    /\ writes' = Append(writes, [snap |-> localDB, n |-> lastMut.n,
                                 age |-> lastMut.age, db |-> lastMut.db])
    /\ UNCHANGED <<copy, isDBReady, initPc, localDB, saveTimeout, timerSeq, held,
                   nreq, uuidCount, responses, log, lastMut>>

\* retryDelay passes; a due timer runs before more time passes
AdvanceTime ==
  /\ ~(timers = {} /\ held = {})
  /\ \A t \in timers : t.left > 0
  /\ \A h \in held : h.left > 0
  /\ timers' = {[t EXCEPT !.left = t.left - retryDelay] : t \in timers}
  /\ held' = {[h EXCEPT !.left = h.left - retryDelay] : h \in held}
  /\ lastMut' = [lastMut EXCEPT !.age = Min(DEBOUNCE_DELAY, lastMut.age + retryDelay)]
  /\ UNCHANGED <<copy, isDBReady, initPc, localDB, storage, saveTimeout, timerSeq,
                 nreq, uuidCount, responses, log, writes>>

(***************************************************************************)
(* initDB                                                                  *)
(***************************************************************************)
\* chrome.storage.local.get resolves
InitDBLoaded ==
  /\ initPc = "loading"
  /\ localDB' = IF storage # NoSnapshot THEN Spread(localDB, storage) ELSE localDB
  /\ isDBReady' = TRUE
  /\ initPc' = "done"
  /\ UNCHANGED <<copy, storage, saveTimeout, timers, timerSeq, held, nreq,
                 uuidCount, responses, log, writes, lastMut>>

\* chrome.storage.local.get rejects: copy 1 catches, copy 2 does not
InitDBFailed ==
  /\ initPc = "loading"
  /\ isDBReady' = (copy = 1)
  /\ initPc' = IF copy = 1 THEN "done" ELSE "rejected"
  /\ UNCHANGED <<copy, localDB, storage, saveTimeout, timers, timerSeq, held,
                 nreq, uuidCount, responses, log, writes, lastMut>>

(***************************************************************************)
(* chrome.runtime.onMessage listener                                       *)
(***************************************************************************)
\* a message arrives while isDBReady
OnMessageReady(request) ==
  /\ isDBReady
  /\ nreq' = nreq + 1
  /\ Dispatch(nreq + 1, request, 0)
  /\ UNCHANGED <<copy, isDBReady, initPc, storage, held, writes>>

\* a message arrives while not isDBReady: copy 1 has checked once and waits,
\* copy 2 has set its one timer
OnMessageNotReady(request) ==
  /\ ~isDBReady
  /\ nreq' = nreq + 1
  /\ held' = held \cup {[rid |-> nreq + 1, request |-> request, retries |-> 0,
                         left |-> retryDelay, pos |-> Cardinality(held) + 1]}
  /\ UNCHANGED <<copy, isDBReady, initPc, localDB, storage, saveTimeout, timers,
                 timerSeq, uuidCount, responses, log, writes, lastMut>>

\* the waiting requests once the timer of h has run: those whose timers were
\* set after it move up one place
TimerRan(h) ==
  {[g EXCEPT !.pos = IF g.pos > h.pos THEN g.pos - 1 ELSE g.pos] : g \in held \ {h}}

\* timers of equal delay run in the order they were set: pos is the place of
\* a request's timer among the pending retry timers, in the order of the
\* setTimeout calls
NextHeld(h) == h \in held /\ h.left = 0 /\ \A g \in held : g.left = 0 => h.pos <= g.pos

\* copy 1: the loop finds isDBReady
PollDispatch ==
  \E h \in held :
    /\ copy = 1 /\ NextHeld(h)
    /\ h.retries + 1 < maxRetries
    /\ isDBReady
    /\ held' = TimerRan(h)
    /\ Dispatch(h.rid, h.request, h.retries + 1)
    /\ UNCHANGED <<copy, isDBReady, initPc, storage, nreq, writes>>

\* copy 1: the loop does not find isDBReady and waits again
PollAgain ==
  \E h \in held :
    /\ copy = 1 /\ NextHeld(h)
    /\ h.retries + 1 < maxRetries
    /\ ~isDBReady
    /\ held' = TimerRan(h) \cup
                 {[h EXCEPT !.retries = h.retries + 1, !.left = retryDelay,
                            !.pos = Cardinality(held)]}
    /\ UNCHANGED <<copy, isDBReady, initPc, localDB, storage, saveTimeout, timers,
                   timerSeq, nreq, uuidCount, responses, log, writes, lastMut>>

TimeoutResponse == [success |-> FALSE, error |-> "Database initialization timeout"]

\* the loop ends without a response
PollTimeoutSilent ==
  \E h \in held :
    /\ copy = 1 /\ NextHeld(h)
    /\ h.retries + 1 >= maxRetries
    /\ held' = TimerRan(h)
    /\ UNCHANGED <<copy, isDBReady, initPc, localDB, storage, saveTimeout, timers,
                   timerSeq, nreq, uuidCount, responses, log, writes, lastMut>>

\* copy 1: the loop ends after maxRetries waits
PollTimeout ==
  \E h \in held :
    /\ copy = 1 /\ NextHeld(h)
    /\ h.retries + 1 >= maxRetries
    /\ held' = TimerRan(h)
    /\ responses' = Append(responses, [rid |-> h.rid, response |-> TimeoutResponse,
                                        waits |-> h.retries + 1,
                                        ready |-> isDBReady])
    /\ UNCHANGED <<copy, isDBReady, initPc, localDB, storage, saveTimeout, timers,
                   timerSeq, nreq, uuidCount, log, writes, lastMut>>

\* copy 2: the one timer runs handleMessage
RetryOnce ==
  \E h \in held :
    /\ copy = 2 /\ NextHeld(h)
    /\ held' = TimerRan(h)
    /\ Dispatch(h.rid, h.request, h.retries + 1)
    /\ UNCHANGED <<copy, isDBReady, initPc, storage, nreq, writes>>

(***************************************************************************)
(* Inputs of the system specification                                      *)
(***************************************************************************)
ConvA == [id |-> "c1", title |-> <<"A">>, update_time |-> 1]
ConvB == [id |-> "c2", update_time |-> 2, isTrashed |-> TRUE]
ConvOld == [id |-> "c0", title |-> <<"b">>, create_time |-> 3]

\* what chrome.storage.local holds under DB_KEY when the script starts
InitialStorage ==
  {NoSnapshot,
   [conversations |-> <<ConvOld>>, prompts |-> <<[id |-> "p1", text |-> "old"]>>]}

Requests ==
  {[action |-> "addConversations", conversations |-> <<ConvA, ConvB>>],
   [action |-> "savePrompt", prompt |-> [text |-> "hi"]],
   [action |-> "deletePrompt", id |-> "p1"],
   [action |-> "getConversations"],
   [action |-> "ping"]}

(***************************************************************************)
(* The system: copy 1 of the script from its start                         *)
(***************************************************************************)
InitWith(copies, snapshots) ==
  /\ copy \in copies
  /\ isDBReady = FALSE
  /\ initPc = "loading"
  /\ localDB = DefaultDB
  /\ storage \in snapshots
  /\ saveTimeout = 0
  /\ timers = {}
  /\ timerSeq = 0
  /\ held = {}
  /\ nreq = 0
  /\ uuidCount = 0
  /\ responses = <<>>
  /\ log = <<>>
  /\ writes = <<>>
  /\ lastMut = [n |-> 0, age |-> 0, db |-> DefaultDB]

Init == InitWith({1}, InitialStorage)

Receive == \E request \in Requests : nreq < MaxReq /\ OnMessageReady(request)

ReceiveEarly == \E request \in Requests : nreq < MaxReq /\ OnMessageNotReady(request)

Next ==
  \/ InitDBLoaded
  \/ InitDBFailed
  \/ Receive
  \/ ReceiveEarly
  \/ PollDispatch
  \/ PollAgain
  \/ PollTimeout
  \/ SaveTimerFire
  \/ AdvanceTime

Spec == Init /\ [][Next]_vars

(***************************************************************************)
(* The system with either copy of the script                               *)
(***************************************************************************)
InitCopies == InitWith({1, 2}, InitialStorage)

NextCopies == Next \/ RetryOnce

SpecCopies == InitCopies /\ [][NextCopies]_vars

(***************************************************************************)
(* The readiness gate under the scheduling the runtime gives: a due timer  *)
(* runs, time passes and the storage read settles, so some enabled         *)
(* internal step is taken in the end.  Messages are the environment's and  *)
(* need not arrive.                                                        *)
(***************************************************************************)
GateRequests ==
  {[action |-> "getPrompts"],
   [type |-> "ping"]}

ReceiveGate ==
  \E request \in GateRequests : nreq < MaxGateReq /\ OnMessageReady(request)

ReceiveEarlyGate ==
  \E request \in GateRequests : nreq < MaxGateReq /\ OnMessageNotReady(request)

Internal ==
  \/ InitDBLoaded
  \/ InitDBFailed
  \/ PollDispatch
  \/ PollAgain
  \/ PollTimeout
  \/ AdvanceTime

NextGate == Internal \/ ReceiveGate \/ ReceiveEarlyGate

FairSpec == Init /\ [][NextGate]_vars /\ WF_vars(Internal)

(***************************************************************************)
(* The merge engine on its own: the store is loaded from one of a few      *)
(* snapshots, then addConversations is sent every batch of up to MaxBatch  *)
(* entries, among them entries that repeat an id, that add fields and that *)
(* carry a new id.                                                         *)
(***************************************************************************)
EmptyObject == <<>>

SeqsUpTo(S, n) == UNION {[1..k -> S] : k \in 0..n}

Stored1 == [id |-> "c1", title |-> <<"A">>, x |-> 1]
Stored2 == [id |-> "c2", title |-> <<"b">>, update_time |-> 4]

MergeSnapshots ==
  {NoSnapshot,
   [conversations |-> <<Stored1, Stored2>>],
   [conversations |-> <<Stored2, Stored1>>]}

Incoming1 == [id |-> "c1", title |-> <<"B">>]
Incoming2 == [id |-> "c1", x |-> 2]
Incoming3 == [id |-> "c3", title |-> <<"A">>, update_time |-> 7]

MergeEntries == {Incoming1, Incoming2, Incoming3}

MergeRequests ==
  {[action |-> "addConversations", conversations |-> b] :
     b \in SeqsUpTo(MergeEntries, MaxBatch)}
    \cup {[action |-> "addConversations"], [action |-> "getConversations"]}

InitMerge == InitWith({1}, MergeSnapshots)

ReceiveMerge ==
  \E request \in MergeRequests : nreq < MaxMergeReq /\ OnMessageReady(request)

NextMerge == InitDBLoaded \/ ReceiveMerge

SpecMerge == InitMerge /\ [][NextMerge]_vars

(***************************************************************************)
(* The query engine on its own: the store is loaded from a snapshot with   *)
(* any arrangement of three conversations and one of two folder lists,    *)
(* then getConversations is sent every combination of page, limit,         *)
(* searchTerm and folderId.                                                *)
(***************************************************************************)
Query1 == [id |-> "c1", title |-> <<"A", "b">>, update_time |-> 1, isTrashed |-> TRUE]
Query2 == [id |-> "c2", title |-> <<"b">>, update_time |-> 3]
Query3 == [id |-> "c3", create_time |-> 2, isTrashed |-> FALSE]

QueryConversations == {Query1, Query2, Query3}

\* the arrangements of distinct conversations
QueryStores ==
  {s \in SeqsUpTo(QueryConversations, Cardinality(QueryConversations)) :
     \A i, j \in 1..Len(s) : i # j => s[i] # s[j]}

Folder1 == [id |-> "f1", conversationIds |-> <<"c1", "c3">>]
Folder2 == [id |-> "f2"]
FolderTrash == [id |-> "trash", conversationIds |-> <<"c2">>]

QueryFolders == {<<Folder1, Folder2>>, <<Folder1, FolderTrash>>}

QuerySnapshots ==
  {[conversations |-> s, folders |-> f] : s \in QueryStores, f \in QueryFolders}

QueryRequests ==
  {Spread(Spread(Spread(Spread([action |-> "getConversations"], p), l), t), f) :
     p \in {EmptyObject, [page |-> 1], [page |-> 2]},
     l \in {EmptyObject, [limit |-> 1], [limit |-> 2]},
     t \in {EmptyObject, [searchTerm |-> <<"b">>], [searchTerm |-> <<"A">>]},
     f \in {EmptyObject, [folderId |-> "all"], [folderId |-> "trash"],
            [folderId |-> "f1"], [folderId |-> "f2"], [folderId |-> "nope"]}}

InitQuery == InitWith({1}, QuerySnapshots)

ReceiveQuery ==
  \E request \in QueryRequests : nreq < MaxQueryReq /\ OnMessageReady(request)

NextQuery == InitDBLoaded \/ ReceiveQuery

SpecQuery == InitQuery /\ [][NextQuery]_vars

(***************************************************************************)
(* Pagination on its own: the store is loaded with any arrangement of four *)
(* conversations, two of them with equal timestamps and one with neither   *)
(* timestamp, then getConversations is sent pages from -1 to 3.            *)
(***************************************************************************)
Page1 == [id |-> "c1", title |-> <<"A", "b">>, update_time |-> 2]
Page2 == [id |-> "c2", title |-> <<"b">>, update_time |-> 2, create_time |-> 1]
Page3 == [id |-> "c3", create_time |-> 3]
Page4 == [id |-> "c4", title |-> <<"a">>]

\* updated at the epoch and created later
Page5 == [id |-> "c5", update_time |-> 0, create_time |-> 5]

PageConversations == {Page1, Page2, Page3, Page4, Page5}

MaxPageStore == 4

PageStores ==
  {s \in SeqsUpTo(PageConversations, MaxPageStore) :
     \A i, j \in 1..Len(s) : i # j => s[i] # s[j]}

PageSnapshots == {[conversations |-> s, folders |-> <<Folder1>>] : s \in PageStores}

PageRequests ==
  {Spread(Spread(Spread(Spread([action |-> "getConversations"], p), l), t), f) :
     p \in {[page |-> n] : n \in -1..3},
     l \in {EmptyObject, [limit |-> 1], [limit |-> 2]},
     t \in {EmptyObject, [searchTerm |-> <<"B">>]},
     f \in {EmptyObject, [folderId |-> "f1"], [folderId |-> ""]}}

InitPage == InitWith({1}, PageSnapshots)

ReceivePage ==
  \E request \in PageRequests : nreq < MaxPageReq /\ OnMessageReady(request)

NextPage == InitDBLoaded \/ ReceivePage

SpecPage == InitPage /\ [][NextPage]_vars

(***************************************************************************)
(* Shorthands over the history                                             *)
(***************************************************************************)
IsAction(request, name) == ActionOf(request) = <<name>>

ResponsesTo(rid) == {i \in 1..Len(responses) : responses[i].rid = rid}

WritesOf(n) == {i \in 1..Len(writes) : writes[i].n = n}

(***************************************************************************)
(* C1  Debounce coalescing                                                 *)
(***************************************************************************)
\* Every burst of operations that call saveDB gets one durable write, made
\* once the quiet period has passed since the last of them: a write is made
\* DEBOUNCE_DELAY after the last such operation, no two writes follow the
\* same operation, and the write for the last operation is pending until it
\* is made.
OneWritePerBurst ==
  /\ \A i \in 1..Len(writes) :
       /\ writes[i].n > 0
       /\ writes[i].age >= DEBOUNCE_DELAY
       /\ Cardinality(WritesOf(writes[i].n)) = 1
  /\ (lastMut.n > 0 /\ WritesOf(lastMut.n) = {}) =>
       \E t \in timers : t.id = saveTimeout

\* C1: mutations less than the quiet period apart get exactly one durable
\* write, and the snapshot written is the store as the last of them left it.
C1_DebounceCoalescing ==
  /\ OneWritePerBurst
  /\ \A i \in 1..Len(writes) : writes[i].snap = writes[i].db

(***************************************************************************)
(* C2  No dispatch while NotReady                                          *)
(***************************************************************************)
\* C2: handleMessage runs only in a state where isDBReady is true.
C2_DispatchOnlyWhenReady == \A i \in 1..Len(log) : log[i].ready

(***************************************************************************)
(* C3  Exactly one response                                                *)
(***************************************************************************)
\* a response is either the handler's, sent while ready, or the timeout
\* failure, sent after maxRetries waits of retryDelay
ResponseShape(r) ==
  \/ /\ r.response = TimeoutResponse
     /\ r.waits = maxRetries
     /\ \A i \in 1..Len(log) : log[i].rid # r.rid
  \/ /\ r.ready
     /\ r.waits < maxRetries
     /\ \E i \in 1..Len(log) : log[i].rid = r.rid /\ log[i].response = r.response

\* C3: every request received gets exactly one response: never two, and in
\* the end one, which is its handler's once the store is ready or the
\* timeout failure after the retry budget.
C3_ExactlyOneResponse ==
  /\ [](\A rid \in 1..nreq : Cardinality(ResponsesTo(rid)) <= 1)
  /\ [](\A i \in 1..Len(responses) : ResponseShape(responses[i]))
  /\ \A rid \in 1..MaxGateReq :
       (nreq >= rid) ~> (Cardinality(ResponsesTo(rid)) = 1)

\* a request received before the store was ready has been dispatched after
\* waiting, and another has been failed with the timeout
C3_Witness ==
  /\ \E i \in 1..Len(responses) :
       responses[i].waits > 0 /\ responses[i].response # TimeoutResponse
  /\ \E i \in 1..Len(responses) : responses[i].response = TimeoutResponse

(***************************************************************************)
(* C4  Initialization always reaches Ready                                 *)
(***************************************************************************)
\* C4: once initDB has finished, whatever load() gave, isDBReady is true.
C4_InitReachesReady == initPc # "loading" => isDBReady

\* C4, second half: isDBReady never goes back to false.
ReadyIsOneWay == [][isDBReady => isDBReady']_vars

(***************************************************************************)
(* C5  addConversations is idempotent                                      *)
(***************************************************************************)
\* C5: when addConversations is dispatched twice in a row with the same
\* batch, the conversations after the second call are those after the first.
C5_Idempotent ==
  \A i \in 1..(Len(log) - 1) :
    (/\ IsAction(log[i].request, "addConversations")
     /\ log[i + 1].request = log[i].request
     /\ log[i + 1].before = log[i].after)
    => log[i + 1].after.conversations = log[i].after.conversations

\* the same batch, which repeats an id and changes a stored record, has been
\* merged twice in a row
C5_Witness ==
  \E i \in 1..(Len(log) - 1) :
    /\ log[i].request = [action |-> "addConversations",
                         conversations |-> <<Incoming1, Incoming2>>]
    /\ log[i + 1].request = log[i].request
    /\ Stored1 \in Range(log[i].before.conversations)
    /\ Stored1 \notin Range(log[i + 1].after.conversations)

(***************************************************************************)
(* C6  Merge precedence                                                    *)
(***************************************************************************)
\* the field-wise overlay of a chain of records: each field has the value of
\* the last record of the chain that has it
Overlay(chain) ==
  [f \in UNION {DOMAIN chain[j] : j \in 1..Len(chain)} |->
     chain[CHOOSE j \in 1..Len(chain) :
             /\ f \in DOMAIN chain[j]
             /\ \A k \in (j + 1)..Len(chain) : f \notin DOMAIN chain[k]][f]]

\* the records of a sequence with a given id, in order
WithId(convs, key) ==
  LET Same(c) == IdOf(c) = key IN Filter(convs, Same)

\* C6: after addConversations(B) the record stored under each id of B is the
\* overlay of the record stored before (if any) and B's entries with that id
\* in input order, it is the only one with that id, and the conversations
\* with other ids are the ones stored before.
C6_MergePrecedence ==
  \A i \in 1..Len(log) :
    (IsAction(log[i].request, "addConversations") /\ Has(log[i].request, "conversations"))
    => LET B == log[i].request.conversations
           before == log[i].before.conversations
           after == log[i].after.conversations
           keys == {IdOf(B[j]) : j \in 1..Len(B)}
       IN  /\ \A key \in keys :
                WithId(after, key) = <<Overlay(WithId(before, key) \o WithId(B, key))>>
           /\ \A c \in Range(before) : IdOf(c) \notin keys => c \in Range(after)
           /\ \A c \in Range(after) : IdOf(c) \notin keys => c \in Range(before)

\* the stored {id: c1, title: A, x: 1} has met the batch <<{id: c1, title: B},
\* {id: c1, x: 2}>> and become {id: c1, title: B, x: 2}, next to an untouched c2
C6_Witness ==
  \E i \in 1..Len(log) :
    /\ log[i].request = [action |-> "addConversations",
                         conversations |-> <<Incoming1, Incoming2>>]
    /\ log[i].before.conversations = <<Stored1, Stored2>>
    /\ log[i].after.conversations =
         <<[id |-> "c1", title |-> <<"B">>, x |-> 2], Stored2>>

(***************************************************************************)
(* C7  Identity uniqueness                                                 *)
(***************************************************************************)
DistinctIds(convs) ==
  \A j, k \in 1..Len(convs) : j # k => IdOf(convs[j]) # IdOf(convs[k])

\* C7: no two stored conversations share an id, and the count that
\* addConversations returns is the number of distinct ids stored.
C7_UniqueIds ==
  /\ DistinctIds(localDB.conversations)
  /\ \A i \in 1..Len(log) :
       IsAction(log[i].request, "addConversations")
       => log[i].response.count =
            Cardinality({IdOf(c) : c \in Range(log[i].after.conversations)})

\* a batch repeating a new id has been merged into a store of two
C7_Witness ==
  \E i \in 1..Len(log) :
    /\ log[i].request = [action |-> "addConversations",
                         conversations |-> <<Incoming3, Incoming3>>]
    /\ Len(log[i].before.conversations) = 2
    /\ log[i].response.count = 3

(***************************************************************************)
(* C8  getConversations is a pure read                                     *)
(***************************************************************************)
\* C8: getConversations leaves the store as it was, the order of the
\* conversations included, and schedules no save.
C8_PureRead ==
  \A i \in 1..Len(log) :
    IsAction(log[i].request, "getConversations")
    => log[i].after = log[i].before /\ ~log[i].save

(***************************************************************************)
(* C9  Trash sentinel                                                      *)
(***************************************************************************)
\* C9: with folderId "trash", the conversations selected are those of the
\* text-filtered store that are trashed, whatever folders the store has.
C9_TrashSentinel ==
  \A i \in 1..Len(log) :
    (/\ IsAction(log[i].request, "getConversations")
     /\ Has(log[i].request, "folderId")
     /\ log[i].request.folderId = "trash")
    => LET kept == TextFilter(log[i].before.conversations, log[i].request)
       IN  /\ log[i].response.total =
                Cardinality({k \in 1..Len(kept) : IsTrashed(kept[k])})
           /\ \A c \in Range(log[i].response.conversations) : IsTrashed(c)

(***************************************************************************)
(* C10  Folder-not-found fallback                                          *)
(***************************************************************************)
Without(request, field) == [f \in DOMAIN request \ {field} |-> request[f]]

FolderNotFound(entry) ==
  /\ IsAction(entry.request, "getConversations")
  /\ Has(entry.request, "folderId")
  /\ entry.request.folderId \notin {"all", "trash"}
  /\ \A k \in 1..Len(entry.before.folders) :
       IdOf(entry.before.folders[k]) # <<entry.request.folderId>>

\* C10: a folderId that is neither "all" nor "trash" and matches no folder
\* gives the total and the items of the same call without folderId.
C10_FolderNotFound ==
  \A i \in 1..Len(log) :
    FolderNotFound(log[i])
    => LET plain == getConversations(log[i].before,
                                     Without(log[i].request, "folderId")).response
       IN  /\ log[i].response.total = plain.total
           /\ log[i].response.conversations = plain.conversations

\* a store with folders and three conversations has been asked for a folder
\* it does not have, with a search term, and has returned the two matches
C10_Witness ==
  \E i \in 1..Len(log) :
    /\ FolderNotFound(log[i])
    /\ log[i].before.folders # <<>>
    /\ Len(log[i].before.conversations) = 3
    /\ HasSearchTerm(log[i].request)
    /\ log[i].response.total = 2

(***************************************************************************)
(* C11  Query pipeline composition                                         *)
(***************************************************************************)
\* the effective timestamp as the claim words it
StatedTime(c) ==
  IF Has(c, "update_time") THEN c.update_time
  ELSE IF Has(c, "create_time") THEN c.create_time
  ELSE 0

\* does a conversation pass the text filter and the relationship filter
PassesFilters(c, folders, request) ==
  /\ HasSearchTerm(request) =>
       /\ Has(c, "title")
       /\ \E i \in 0..(Len(c.title) - Len(request.searchTerm)) :
            \A j \in 1..Len(request.searchTerm) :
              LowerChar(c.title[i + j]) = LowerChar(request.searchTerm[j])
  /\ (Has(request, "folderId") /\ request.folderId # "all") =>
       IF \E k \in 1..Len(folders) : folders[k].id = request.folderId
       THEN \E k \in 1..Len(folders) :
              /\ folders[k].id = request.folderId
              /\ \A m \in 1..(k - 1) : folders[m].id # request.folderId
              /\ Has(folders[k], "conversationIds")
              /\ \E n \in 1..Len(folders[k].conversationIds) :
                   folders[k].conversationIds[n] = c.id
       ELSE request.folderId = "trash" => (Has(c, "isTrashed") /\ c.isTrashed)

\* the orderings of a set of conversations, most recent first
DescendingOrders(S) ==
  {s \in [1..Cardinality(S) -> S] :
     /\ \A i, j \in 1..Len(s) : i # j => s[i] # s[j]
     /\ \A i \in 1..(Len(s) - 1) : StatedTime(s[i]) >= StatedTime(s[i + 1])}

\* positions first + 1 .. first + count of a sequence, as far as it goes
Window(s, first, count) ==
  [i \in 1..Max(0, Min(count, Len(s) - first)) |-> s[first + i]]

\* C11: for page >= 1, total is the number of conversations passing the text
\* and folder filters, and items are positions [(page-1)*limit,
\* (page-1)*limit + limit) of those conversations ordered by effective
\* timestamp, most recent first.
C11_PipelineComposition ==
  \A i \in 1..Len(log) :
    (/\ IsAction(log[i].request, "getConversations")
     /\ log[i].response.page >= 1)
    => LET passing == {c \in Range(log[i].before.conversations) :
                         PassesFilters(c, log[i].before.folders, log[i].request)}
           r == log[i].response
       IN  /\ r.total = Cardinality(passing)
           /\ \E order \in DescendingOrders(passing) :
                r.conversations = Window(order, (r.page - 1) * r.limit, r.limit)
           /\ \A j \in 1..(Len(r.conversations) - 1) :
                StatedTime(r.conversations[j]) >= StatedTime(r.conversations[j + 1])

\* the same with the timestamp the comparator takes, a.update_time ||
\* a.create_time || 0, where an update_time of 0 counts as absent
PipelineWithFalsyAbsent ==
  \A i \in 1..Len(log) :
    (/\ IsAction(log[i].request, "getConversations")
     /\ log[i].response.page >= 1)
    => LET passing == {c \in Range(log[i].before.conversations) :
                         PassesFilters(c, log[i].before.folders, log[i].request)}
           r == log[i].response
       IN  /\ r.total = Cardinality(passing)
           /\ \E order \in [1..Cardinality(passing) -> passing] :
                /\ \A j, k \in 1..Len(order) : j # k => order[j] # order[k]
                /\ \A j \in 1..(Len(order) - 1) :
                     EffectiveTime(order[j]) >= EffectiveTime(order[j + 1])
                /\ r.conversations = Window(order, (r.page - 1) * r.limit, r.limit)

\* page 2 of limit 2 of a store of four, stored oldest first, has returned
\* the third and fourth most recent and the total 4
C11_Witness ==
  \E i \in 1..Len(log) :
    /\ log[i].before.conversations = <<Page4, Page3, Page2, Page1>>
    /\ log[i].request = [action |-> "getConversations", page |-> 2, limit |-> 2]
    /\ log[i].response.conversations = <<Page1, Page4>>
    /\ log[i].response.total = 4

(***************************************************************************)
(* C12  Out-of-range pages                                                 *)
(***************************************************************************)
\* C12: a page beyond the last one, or less than 1, gives an empty item
\* sequence in a success response.
C12_OutOfRangeEmpty ==
  \A i \in 1..Len(log) :
    (/\ IsAction(log[i].request, "getConversations")
     /\ \/ log[i].response.page < 1
        \/ (log[i].response.page - 1) * log[i].response.limit >= log[i].response.total)
    => /\ log[i].response.success
       /\ log[i].response.conversations = <<>>

\* C12 for the pages beyond the last one and for page 0
BeyondLastEmpty ==
  \A i \in 1..Len(log) :
    (/\ IsAction(log[i].request, "getConversations")
     /\ \/ log[i].response.page = 0
        \/ /\ log[i].response.page >= 1
           /\ (log[i].response.page - 1) * log[i].response.limit >= log[i].response.total)
    => /\ log[i].response.success
       /\ log[i].response.conversations = <<>>

(***************************************************************************)
(* The prompt collection on its own: the store is loaded empty or with two *)
(* prompts, then prompts are saved without an id, with an id the store     *)
(* holds, with a new id and with an id a previous save returned, and       *)
(* prompts are deleted.                                                    *)
(***************************************************************************)
MaxPromptReq == 3

Prompt1 == [id |-> "p1", text |-> "one"]

Prompt2 == [id |-> "p2", text |-> "two"]

PromptSnapshots ==
  {NoSnapshot, [prompts |-> <<Prompt1, Prompt2>>]}

PromptRequests ==
  {[action |-> "savePrompt", prompt |-> [text |-> "hi"]],
   [action |-> "savePrompt", prompt |-> [id |-> "", text |-> "blank"]],
   [action |-> "savePrompt", prompt |-> [id |-> "p1", text |-> "changed"]],
   [action |-> "savePrompt", prompt |-> [id |-> "p3", text |-> "three"]],
   [action |-> "deletePrompt", id |-> "p1"],
   [action |-> "getPrompts"]}

\* a caller saves again under an identity an earlier save returned
ReturnedRequests ==
  {[action |-> "savePrompt", prompt |-> [id |-> RandomUUID(k), text |-> "again"]] :
     k \in 1..uuidCount}

InitPrompt == InitWith({1}, PromptSnapshots)

ReceivePrompt ==
  \E request \in PromptRequests : nreq < MaxPromptReq /\ OnMessageReady(request)

ReceiveReturned ==
  \E request \in ReturnedRequests : nreq < MaxPromptReq /\ OnMessageReady(request)

NextPrompt == InitDBLoaded \/ ReceivePrompt \/ ReceiveReturned

SpecPrompt == InitPrompt /\ [][NextPrompt]_vars

\* the ids of the prompts of a collection
PromptIds(prompts) == {IdOf(prompts[i]) : i \in 1..Len(prompts)}

\* C13: a savePrompt whose prompt has no id appends a copy of it under an id
\* that no stored prompt had, a savePrompt whose id a stored prompt has puts
\* the prompt in that prompt's place and changes nothing else, and the stored
\* prompts never share an id
C13_PromptUpsert ==
  /\ DistinctIds(localDB.prompts)
  /\ \A i \in 1..Len(log) :
       IsAction(log[i].request, "savePrompt") /\ Has(log[i].request, "prompt") =>
         LET prompt == log[i].request.prompt
             before == log[i].before.prompts
             after == log[i].after.prompts
             stored == log[i].response.prompt
         IN  /\ ~Has(prompt, "id") =>
                  /\ log[i].response.success
                  /\ Has(stored, "id")
                  /\ IdOf(stored) \notin PromptIds(before)
                  /\ \A f \in DOMAIN prompt : Has(stored, f) /\ stored[f] = prompt[f]
                  /\ DOMAIN stored = DOMAIN prompt \cup {"id"}
                  /\ Len(after) = Len(before) + 1
                  /\ after = Append(before, stored)
             /\ Has(prompt, "id") /\ IdOf(prompt) \in PromptIds(before) =>
                  /\ log[i].response.success
                  /\ stored = prompt
                  /\ Len(after) = Len(before)
                  /\ \E k \in 1..Len(before) :
                       /\ IdOf(before[k]) = IdOf(prompt)
                       /\ after[k] = prompt
                       /\ \A j \in 1..Len(before) : j # k => after[j] = before[j]

\* a save without an id was appended as uuid-1 after the two stored prompts,
\* and a later save under uuid-1 replaced it where it was
C13_Witness ==
  /\ Len(log) = 2
  /\ log[1].request = [action |-> "savePrompt", prompt |-> [text |-> "hi"]]
  /\ log[1].after.prompts = <<Prompt1, Prompt2, [id |-> "uuid-1", text |-> "hi"]>>
  /\ log[2].request = [action |-> "savePrompt",
                       prompt |-> [id |-> "uuid-1", text |-> "again"]]
  /\ localDB.prompts = <<Prompt1, Prompt2, [id |-> "uuid-1", text |-> "again"]>>

(***************************************************************************)
(* The dispatch boundary on its own: once ready, handleMessage is sent     *)
(* requests whose controller throws, requests naming no controller,        *)
(* requests naming a property Controller inherits, and ordinary ones.      *)
(***************************************************************************)
MaxFaultReq == 2

FaultRequests ==
  {[action |-> "addConversations", conversations |-> <<Incoming3, NullEntry>>],
   [action |-> "addConversations", conversations |-> <<NullEntry>>],
   [action |-> "addConversations", conversations |-> <<Incoming1>>],
   [action |-> "savePrompt", prompt |-> [text |-> "hi"]],
   [action |-> "nope"],
   [action |-> "constructor"],
   [action |-> "__proto__"],
   [type |-> "ping"],
   [type |-> "", action |-> "getPrompts"]}

InitFault == InitWith({1}, MergeSnapshots)

ReceiveFault ==
  \E request \in FaultRequests : nreq < MaxFaultReq /\ OnMessageReady(request)

NextFault == InitDBLoaded \/ ReceiveFault

SpecFault == InitFault /\ [][NextFault]_vars

UnknownAction == [success |-> FALSE, error |-> "Unknown action"]

\* the request names neither a controller nor ping
NamesNoController(request) ==
  \A name \in ControllerNames \cup {"ping"} : ~IsAction(request, name)

\* the batch of an addConversations request holds a null entry
HasNullEntry(request) ==
  /\ IsAction(request, "addConversations")
  /\ Has(request, "conversations")
  /\ \E k \in 1..Len(request.conversations) : IsNull(request.conversations[k])

\* C14: every request received once ready has exactly one response; a request
\* whose controller throws is answered with the failure envelope carrying the
\* message, a request that names neither a controller nor ping is answered
\* with the Unknown action envelope, and later requests are handled all the same
C14_FaultContainment ==
  /\ isDBReady => \A rid \in 1..nreq : Cardinality(ResponsesTo(rid)) = 1
  /\ \A i \in 1..Len(log) :
       /\ HasNullEntry(log[i].request) =>
            log[i].response = [success |-> FALSE, error |-> NullIdMessage]
       /\ NamesNoController(log[i].request) => log[i].response = UnknownAction

\* the same for the action names Controller does not inherit
ContainedButInherited ==
  /\ isDBReady => \A rid \in 1..nreq : Cardinality(ResponsesTo(rid)) = 1
  /\ \A i \in 1..Len(log) :
       /\ HasNullEntry(log[i].request) =>
            log[i].response = [success |-> FALSE, error |-> NullIdMessage]
       /\ /\ NamesNoController(log[i].request)
          /\ \A name \in InheritedNames : ~IsAction(log[i].request, name)
          => log[i].response = UnknownAction

\* C19: an addConversations whose batch holds a null entry leaves the store
\* as it was, schedules no save and is answered with a failure
C19_AtomicMerge ==
  \A i \in 1..Len(log) :
    HasNullEntry(log[i].request) =>
      /\ log[i].after.conversations = log[i].before.conversations
      /\ log[i].after = log[i].before
      /\ ~log[i].save
      /\ log[i].response.success = FALSE
      /\ Has(log[i].response, "error")

\* a batch of a new conversation and then null was sent to a store of two
\* conversations, which are still all it holds, and no timer is pending
C19_Witness ==
  /\ Len(log) = 1
  /\ log[1].request = [action |-> "addConversations",
                       conversations |-> <<Incoming3, NullEntry>>]
  /\ Len(log[1].before.conversations) = 2
  /\ localDB.conversations = log[1].before.conversations
  /\ timers = {}
  /\ responses[1].response = [success |-> FALSE, error |-> NullIdMessage]

\* C15: a ping is never held waiting for initialization, and every ping handled
\* was answered at once with the acknowledgment, in whatever state it arrived,
\* without a controller being called
C15_PingBypassesReadiness ==
  /\ \A h \in held : ~IsAction(h.request, "ping")
  /\ \A i \in 1..Len(log) :
       IsAction(log[i].request, "ping") =>
         /\ log[i].response = [status |-> "ok"]
         /\ ~log[i].called
         /\ \A k \in ResponsesTo(log[i].rid) : responses[k].waits = 0

\* a ping handled once ready is acknowledged without a controller
PingWhenReady ==
  \A i \in 1..Len(log) :
    IsAction(log[i].request, "ping") =>
      /\ log[i].response = [status |-> "ok"]
      /\ ~log[i].called
      /\ log[i].after = log[i].before

\* C16: at most one debounce timer is pending, and it is the one saveTimeout
\* names: saveDB has cleared the timer before it
C16_SingleTimer ==
  /\ Cardinality(timers) <= 1
  /\ \A t \in timers : t.id = saveTimeout

\* saveDB has run twice with no write between, the second time while the
\* first timer was pending, and the one timer pending is the second
C16_Witness ==
  /\ lastMut.n = 2
  /\ writes = <<>>
  /\ timerSeq = 2
  /\ \E t \in timers : t.id = 2 /\ t.left < DEBOUNCE_DELAY
  /\ Cardinality(timers) = 1

\* C17: the initialization timeout failure is only sent while the store is not
\* ready
C17_ReadinessWins ==
  \A k \in 1..Len(responses) :
    responses[k].response = TimeoutResponse => ~responses[k].ready

\* a held request that finds the store ready at one of its checks is handled
HeldDispatchedAtCheck ==
  \A k \in 1..Len(responses) :
    responses[k].waits > 0 /\ responses[k].waits < maxRetries =>
      responses[k].ready /\ responses[k].response # TimeoutResponse

\* C20: requests are handled in the order they were received
C20_ArrivalOrder ==
  \A i, j \in 1..Len(log) : i < j => log[i].rid < log[j].rid

(***************************************************************************)
(* Durability under the scheduling the runtime gives: mutations and reads  *)
(* arrive once the store is ready, a due timer runs and time passes.       *)
(***************************************************************************)
MaxDurableReq == 2

DurableRequests ==
  {[action |-> "addConversations", conversations |-> <<ConvA, ConvB>>],
   [action |-> "savePrompt", prompt |-> [text |-> "hi"]],
   [action |-> "deletePrompt", id |-> "p1"],
   [action |-> "getConversations"]}

ReceiveDurable ==
  \E request \in DurableRequests : nreq < MaxDurableReq /\ OnMessageReady(request)

\* the steps the runtime takes by itself once no request is waiting
Settle ==
  \/ InitDBLoaded
  \/ InitDBFailed
  \/ SaveTimerFire
  \/ AdvanceTime

NextDurable == Settle \/ ReceiveDurable

SpecDurable == Init /\ [][NextDurable]_vars /\ WF_vars(Settle)

\* the request is one of the mutations: an addConversations with a batch that
\* is not empty, a savePrompt, a deletePrompt
IsMutation(request) ==
  \/ /\ IsAction(request, "addConversations")
     /\ Has(request, "conversations") /\ request.conversations # <<>>
  \/ IsAction(request, "savePrompt")
  \/ IsAction(request, "deletePrompt")

\* saveDB has run and no durable write was made since it last did
Unwritten == lastMut.n > 0 /\ \A i \in 1..Len(writes) : writes[i].n < lastMut.n

\* C18: every mutation handled schedules a save; every durable write holds the
\* conversations and prompts the last mutation before it left; a write makes
\* the durable snapshot equal to the store, and only handling a later request
\* ends that; and, requests being finitely many, each mutation is followed in
\* the end by a write made after it
C18_EventualDurability ==
  /\ [](\A i \in 1..Len(log) : IsMutation(log[i].request) => log[i].save)
  /\ [](\A i \in 1..Len(writes) :
         /\ Range(writes[i].snap.conversations) = Range(writes[i].db.conversations)
         /\ writes[i].snap.prompts = writes[i].db.prompts)
  /\ [][Len(writes') > Len(writes) => storage' = localDB']_vars
  /\ [][(storage = localDB /\ storage' # localDB') => Len(log') > Len(log)]_vars
  /\ Unwritten ~> ~Unwritten

\* two mutations were handled less than the delay apart, one write followed
\* the second, nothing is pending and the durable snapshot is the store
C18_Witness ==
  /\ Len(log) = 2
  /\ IsMutation(log[1].request) /\ IsMutation(log[2].request)
  /\ Len(writes) = 1
  /\ writes[1].n = 2
  /\ timers = {}
  /\ storage = localDB
  /\ Len(localDB.conversations) = 2
====
